---- MODULE Spec2Model ----
(***************************************************************************)
(* OpenAIEmbeddingFunction (embedding-function.ts): configuration          *)
(* validation built from fp-ts Either/Option combinators, the adapter's    *)
(* configuration lifecycle, and the chunk -> batch -> fetch pipeline of    *)
(* generate.                                                               *)
(***************************************************************************)
EXTENDS Integers, Sequences, FiniteSets, TLC

\* ------------------------------------------------------------------ bounds
\* Numbers offered as chunkSize / chunkOverlap values range over -1..MaxNum.
MaxNum == 1
\* Adapter instances alive at once in the lifecycle specification.
MaxAdapters == 2
\* Length of the texts argument of generate.
MaxTexts == 2
\* Largest integer chunkSize a generate-specification adapter is built with.
MaxChunkSize == 2

\* ------------------------------------------------------- JavaScript values
\* A JavaScript value is a tag (what typeof and the nullish test see) and a
\* payload: the number itself, or an identifier of the string / function.
Undefined == [t |-> "undefined", v |-> 0]
Null == [t |-> "null", v |-> 0]
Str(n) == [t |-> "string", v |-> n]
Num(n) == [t |-> "number", v |-> n]
Fn(n) == [t |-> "function", v |-> n]

\* The empty string "" is Str(0): defined, falsy.
EmptyStr == Str(0)

typeof(x) == IF x.t = "null" THEN "object" ELSE x.t

\* value == null || value === undefined, the test of fromNullable.
isNullable(x) == x.t \in {"undefined", "null"}

\* ------------------------------------------------------------- predicates
isString(x) == typeof(x) = "string"

\* (mutant) >= 0 in place of > 0.
isPositiveNumberOrZero(x) == typeof(x) = "number" /\ x.v >= 0
isPositiveNumber(x) == typeof(x) = "number" /\ x.v > 0

isNonNegativeNumber(x) == typeof(x) = "number" /\ x.v >= 0

isFunction(x) == typeof(x) = "function"

\* A predicate is passed by name; Holds applies it.
Holds(predicate, x) ==
  CASE predicate = "isString" -> isString(x)
    [] predicate = "isPositiveNumber" -> isPositiveNumber(x)
    [] predicate = "isNonNegativeNumber" -> isNonNegativeNumber(x)
    [] predicate = "isFunction" -> isFunction(x)

\* ---------------------------------------------------------- fp-ts Either
\* Error messages are the template's pieces in order.
NoError == <<>>
RequiredError(name) == <<name, "is required">>
InvalidError(name) == <<name, "is invalid">>
UpdateError(name) == <<"Updating", name, "is not allowed">>

Left(e) == [tag |-> "Left", left |-> e, right |-> Undefined]
Right(x) == [tag |-> "Right", left |-> NoError, right |-> x]
isLeft(e) == e.tag = "Left"

\* E.fromNullable(err)(value) then E.chain(E.fromPredicate(predicate, invalid)).
validateRequiredField(predicate, name, value) ==
  IF isNullable(value) THEN Left(RequiredError(name))
  ELSE IF Holds(predicate, value) THEN Right(value)
  ELSE Left(InvalidError(name))

\* O.fromNullable(value) matched: none -> right(value), some -> fromPredicate.
validateOptionalField(predicate, name, value) ==
  IF isNullable(value) THEN Right(value)
  ELSE IF Holds(predicate, value) THEN Right(value)
  ELSE Left(InvalidError(name))

\* (mutant) a truthiness test in place of the nullish test: 0 and "" pass.
validateFieldUpdateTruthy(name, value) ==
  IF isNullable(value) \/ value = Num(0) \/ value = EmptyStr THEN Right(value)
  ELSE Left(UpdateError(name))

\* O.fromNullable(value) matched: none -> right(value), some -> left(...).
validateFieldUpdate(name, value) ==
  IF isNullable(value) THEN Right(value)
  ELSE Left(UpdateError(name))

\* E.ap: the function side is inspected first, then the argument side.
EitherAp(fab, fa) ==
  IF isLeft(fab) THEN fab
  ELSE IF isLeft(fa) THEN fa
  ELSE Right(Undefined)

\* sequenceS(E.Apply)(r): Object.keys(r) in insertion order, map on the first
\* entry, then ap over the remaining ones, left to right.
RECURSIVE SequenceSFrom(_, _, _)
SequenceSFrom(entries, fr, i) ==
  IF i > Len(entries) THEN fr
  ELSE SequenceSFrom(entries, EitherAp(fr, entries[i]), i + 1)

EitherMap(fa) == IF isLeft(fa) THEN fa ELSE Right(Undefined)

sequenceS(entries) == SequenceSFrom(entries, EitherMap(entries[1]), 2)

\* E.match((err) => { throw err }, () => {}): what the call does.
Returned == [threw |-> FALSE, err |-> NoError]
Threw(e) == [threw |-> TRUE, err |-> e]
MatchThrow(e) == IF isLeft(e) THEN Threw(e.left) ELSE Returned

\* -------------------------------------------------------------- validation
\* The entries of the object literal of validateConfig, in key order.
validateConfigSeq(config) ==
  << validateRequiredField("isString", "aiServiceUrl", config.aiServiceUrl),
     validateRequiredField("isString", "model", config.model),
     validateOptionalField("isString", "encodingFormat", config.encodingFormat),
     validateOptionalField("isPositiveNumber", "chunkSize", config.chunkSize),
     validateOptionalField("isNonNegativeNumber", "chunkOverlap", config.chunkOverlap),
     validateOptionalField("isString", "chunkStrategy", config.chunkStrategy),
     validateOptionalField("isFunction", "splitter", config.splitter) >>

validateConfig(config) == MatchThrow(sequenceS(validateConfigSeq(config)))

\* (mutant) the update checks keyed in the order of validateConfig.
validateConfigUpdateSeqFullOrder(newConfig) ==
  << validateFieldUpdate("aiServiceUrl", newConfig.aiServiceUrl),
     validateFieldUpdate("model", newConfig.model),
     validateFieldUpdate("encodingFormat", newConfig.encodingFormat),
     validateOptionalField("isPositiveNumber", "chunkSize", newConfig.chunkSize),
     validateFieldUpdate("chunkOverlap", newConfig.chunkOverlap),
     validateFieldUpdate("chunkStrategy", newConfig.chunkStrategy),
     validateOptionalField("isFunction", "splitter", newConfig.splitter) >>

\* The entries of the object literal of validateConfigUpdate, in key order.
validateConfigUpdateSeq(newConfig) ==
  << validateFieldUpdate("model", newConfig.model),
     validateFieldUpdate("encodingFormat", newConfig.encodingFormat),
     validateFieldUpdate("chunkStrategy", newConfig.chunkStrategy),
     validateFieldUpdate("chunkOverlap", newConfig.chunkOverlap),
     validateOptionalField("isPositiveNumber", "chunkSize", newConfig.chunkSize),
     validateFieldUpdate("aiServiceUrl", newConfig.aiServiceUrl),
     validateOptionalField("isFunction", "splitter", newConfig.splitter) >>

validateConfigUpdate(newConfig) ==
  MatchThrow(sequenceS(validateConfigUpdateSeq(newConfig)))

\* ------------------------------------------------------------------ state
VARIABLES
  raw,       \* the raw mapping handed to a validation call
  mode,      \* which validation ran on raw: "none", "full" or "update"
  res,       \* what that call did: returned, or threw an error
  adapters,  \* the instances: adapters[i].config is this.config of instance i
  built,     \* per instance, the argument its constructor was called with
  last,      \* the last synchronous call on the adapters and what it did
  gen,       \* the generate call: its locals and its promise
  inflight,  \* requests handed to fetch and not yet answered
  requests,  \* the batches sent by the generate call, in order
  responses  \* the responses the generate call received, in order

vvars == <<raw, mode, res>>
avars == <<adapters, built>>
gvars == <<gen, inflight, requests, responses>>
vars == <<raw, mode, res, adapters, built, last, gen, inflight, requests, responses>>

\* A raw mapping read field by field: a missing key reads as undefined.
MkConfig(u, m, e, cs, co, st, sp) ==
  [aiServiceUrl |-> u, model |-> m, encodingFormat |-> e, chunkSize |-> cs,
   chunkOverlap |-> co, chunkStrategy |-> st, splitter |-> sp]

EmptyMapping ==
  MkConfig(Undefined, Undefined, Undefined, Undefined, Undefined, Undefined,
           Undefined)

StringFieldValues == {Undefined, Null, EmptyStr, Str(1), Num(0)}
NumberFieldValues == {Undefined, Null, EmptyStr} \cup {Num(n) : n \in -1..MaxNum}
SplitterValues == {Undefined, Null, Fn(1), Str(1)}

RawConfigs ==
  { MkConfig(u, m, e, cs, co, st, sp) :
      u \in StringFieldValues, m \in StringFieldValues,
      e \in StringFieldValues, cs \in NumberFieldValues,
      co \in NumberFieldValues, st \in StringFieldValues,
      sp \in SplitterValues }

\* ------------------------------------------------------------ the adapter
\* if (config): an absent (undefined / null) argument is falsy, a mapping is
\* truthy.
Truthy(arg) == arg # Undefined /\ arg # Null

\* (mutant) the constructor stores the argument without validating it.
ConstructorNoValidation(arg) ==
  IF Truthy(arg)
  THEN [out |-> Returned, config |-> arg]
  ELSE [out |-> Returned, config |-> Undefined]

\* new OpenAIEmbeddingFunction(arg): what the constructor does (out) and, when
\* it returns, the instance's this.config (undefined when nothing was stored).
Constructor(arg) ==
  IF Truthy(arg)
  THEN LET out == validateConfig(arg)
       IN [out |-> out, config |-> IF out.threw THEN Undefined ELSE arg]
  ELSE [out |-> Returned, config |-> Undefined]

TypeError == <<"TypeError">>

\* (mutant) getConfig returns the stored object itself, splitter included.
getConfigWhole(config) == config

\* The object literal getConfig returns from this.config.
getConfig(config) ==
  [aiServiceUrl |-> config.aiServiceUrl, model |-> config.model,
   encodingFormat |-> config.encodingFormat, chunkSize |-> config.chunkSize,
   chunkOverlap |-> config.chunkOverlap, chunkStrategy |-> config.chunkStrategy]

\* (mutant) buildFromConfig configures the calling instance and returns it.
buildFromConfigInPlace(as, self, arg) ==
  LET c == Constructor(arg)
  IN [out |-> c.out,
      adapters |-> IF c.out.threw THEN as
                   ELSE [as EXCEPT ![self] = [config |-> c.config]],
      made |-> IF c.out.threw THEN 0 ELSE self]

\* buildFromConfig(arg) on instance self, with the instances as: what the call
\* does (out), the instances afterwards, and the instance it returns (made, 0
\* when it throws).
buildFromConfig(as, self, arg) ==
  LET c == Constructor(arg)
  IN [out |-> c.out,
      adapters |-> IF c.out.threw THEN as ELSE Append(as, [config |-> c.config]),
      made |-> IF c.out.threw THEN 0 ELSE Len(as) + 1]

\* The record of a call: before is the calling instance's this.config as the
\* call began.
NoCall ==
  [op |-> "none", self |-> 0, arg |-> Undefined, before |-> Undefined,
   out |-> Returned, made |-> 0, ret |-> Undefined]

\* ------------------------------------------------------- JavaScript numbers
\* The loop index of generate is a JavaScript number: an integer or NaN.
JsNum(n) == [nan |-> FALSE, n |-> n]
NaN == [nan |-> TRUE, n |-> 0]

\* ToNumber of what this.config.chunkSize can hold.
ToNumber(x) ==
  CASE x.t = "number" -> JsNum(x.v)
    [] x.t = "null" -> JsNum(0)
    [] OTHER -> NaN

JsAdd(a, b) == IF a.nan \/ b.nan THEN NaN ELSE JsNum(a.n + b.n)

\* a < b is false when either side is NaN.
JsLess(a, b) == ~a.nan /\ ~b.nan /\ a.n < b.n

\* ToIntegerOrInfinity then the clamping of Array.prototype.slice.
ClampIndex(a, len) ==
  IF a.nan THEN 0
  ELSE IF a.n < 0 THEN (IF len + a.n < 0 THEN 0 ELSE len + a.n)
  ELSE IF a.n > len THEN len ELSE a.n

Slice(s, start, end) ==
  SubSeq(s, ClampIndex(start, Len(s)) + 1, ClampIndex(end, Len(s)))

\* -------------------------------------------------------------- generate
\* The sample texts: 1 is "a", 2 is "b c".  The chunk strings: 1 is "a",
\* 2 is "b c", 3 is "b", 4 is "c".
Texts == {1, 2}

\* The sample splitters: Fn(1) is text => [text], Fn(2) is
\* text => text.split(" ").
ApplySplitter(fn, text) ==
  IF fn = Fn(1) THEN <<text>>
  ELSE IF text = 2 THEN <<3, 4>> ELSE <<text>>

RECURSIVE Flatten(_)
Flatten(ss) == IF ss = <<>> THEN <<>> ELSE Head(ss) \o Flatten(Tail(ss))

\* Step 1 of generate: for (const text of texts) chunks.push(...splitter(text)).
\* Reading this.config.splitter of an instance without a config, or calling a
\* splitter that is not a function, throws a TypeError; neither happens when
\* texts is empty.
SplitAll(config, texts) ==
  IF texts = <<>> THEN [threw |-> FALSE, chunks |-> <<>>]
  ELSE IF config = Undefined THEN [threw |-> TRUE, chunks |-> <<>>]
  ELSE IF ~isFunction(config.splitter) THEN [threw |-> TRUE, chunks |-> <<>>]
  ELSE [threw |-> FALSE,
        chunks |-> Flatten([k \in 1..Len(texts) |->
                              ApplySplitter(config.splitter, texts[k])])]

\* (mutant) chunks.slice(i, chunkSize): the end is not offset by i.
BatchEndNotOffset(chunks, i, config) ==
  Slice(chunks, i, ToNumber(config.chunkSize))

\* chunks.slice(i, i + this.config.chunkSize)
Batch(chunks, i, config) ==
  Slice(chunks, i, JsAdd(i, ToNumber(config.chunkSize)))

\* The body of the POST: JSON.stringify({model, input, encoding_format}).
RequestBody(config, batch) ==
  [url |-> config.aiServiceUrl, model |-> config.model, input |-> batch,
   encoding_format |-> config.encodingFormat]

\* The embedding of a chunk, as the service computes it.
Embedding(chunk) == 100 + chunk

NoReason == [kind |-> "none", status |-> 0, statusText |-> ""]
TypeErrorReason == [kind |-> "TypeError", status |-> 0, statusText |-> ""]
RequestFailed(response) ==
  [kind |-> "Embedding request failed", status |-> response.status,
   statusText |-> response.statusText]

\* The responses the service can give to a request: a non-success status, or
\* a success whose data holds one embedding per input, or one fewer.
FailureResponses ==
  { [ok |-> FALSE, status |-> 500, statusText |-> "Internal Server Error",
     data |-> <<>>],
    [ok |-> FALSE, status |-> 429, statusText |-> "Too Many Requests",
     data |-> <<>>] }

OkResponse(data) == [ok |-> TRUE, status |-> 200, statusText |-> "OK", data |-> data]

FullData(input) == [k \in 1..Len(input) |-> Embedding(input[k])]

SuccessResponses(input) ==
  { OkResponse(FullData(input)),
    OkResponse(SubSeq(FullData(input), 1, Len(input) - 1)) }

IdleGen ==
  [pc |-> "idle", self |-> 0, texts |-> <<>>, chunks |-> <<>>,
   i |-> JsNum(0), embeddings |-> <<>>, settled |-> "none", value |-> <<>>,
   reason |-> NoReason]

\* Requests a generate call may send before the model stops following it (a
\* null chunkSize never advances i).
MaxRequests == MaxTexts * 2 + 1

\* (mutant) the fetch is not awaited: every remaining batch is requested at
\* once.
RECURSIVE IssueAllRemaining(_, _, _)
IssueAllRemaining(chunks, i, config) ==
  IF JsLess(i, JsNum(Len(chunks))) /\ ToNumber(config.chunkSize).n > 0
  THEN <<RequestBody(config, Batch(chunks, i, config))>>
       \o IssueAllRemaining(chunks, JsAdd(i, ToNumber(config.chunkSize)), config)
  ELSE <<>>

\* The requests handed to fetch when the loop body is entered at index i: the
\* one batch, whose response is awaited before anything else happens.
Issue(chunks, i, config) == <<RequestBody(config, Batch(chunks, i, config))>>

\* The loop head `i < chunks.length` with the locals of g: either the body is
\* entered and the call suspends in `await fetch`, or the loop is over and the
\* promise resolves with embeddings.
LoopHead(g, config) ==
  IF JsLess(g.i, JsNum(Len(g.chunks)))
  THEN [g |-> [g EXCEPT !.pc = "fetch"],
        send |-> Issue(g.chunks, g.i, config)]
  ELSE [g |-> [g EXCEPT !.pc = "done", !.settled = "resolved",
                        !.value = g.embeddings],
        send |-> <<>>]

\* (mutant) a failed batch is skipped and the loop goes on.
OnResponseSkipFailed(g, response) ==
  IF response.ok THEN [g EXCEPT !.pc = "json"]
  ELSE [g EXCEPT !.pc = "json"]

\* if (!response.ok) throw new Error(...); otherwise await response.json().
OnResponse(g, response) ==
  IF response.ok THEN [g EXCEPT !.pc = "json"]
  ELSE [g EXCEPT !.pc = "failed", !.settled = "rejected",
                 !.reason = RequestFailed(response)]

\* i += this.config.chunkSize
NextIndex(i, config) == JsAdd(i, ToNumber(config.chunkSize))

\* embeddings.push(...json.data.map(d => d.embedding)), then i += chunkSize.
OnJson(g, data, config) ==
  [g EXCEPT !.embeddings = g.embeddings \o data,
            !.i = NextIndex(g.i, config)]

\* ------------------------------------------------------------------ inputs
\* The arguments offered to the constructor, buildFromConfig and
\* validateConfig in the lifecycle specification: none, a full configuration
\* (the tests' validConfig shape), one with the required fields only, and two
\* that fail validation.
FullConfig == MkConfig(Str(1), Str(1), Str(1), Num(1), Num(0), Str(1), Fn(2))
MinimalConfig ==
  MkConfig(Str(2), Str(2), Undefined, Undefined, Undefined, Undefined, Undefined)
BadModelConfig == [FullConfig EXCEPT !.model = Num(0)]
NoUrlConfig == [FullConfig EXCEPT !.aiServiceUrl = Undefined, !.chunkSize = Num(0)]

MappingInputs == {FullConfig, MinimalConfig, BadModelConfig, NoUrlConfig}
ConfigInputs == {Undefined, Null} \cup MappingInputs

\* The partial mappings offered to validateConfigUpdate.
UpdateInputs ==
  { EmptyMapping,
    [EmptyMapping EXCEPT !.chunkSize = Num(2)],
    [EmptyMapping EXCEPT !.chunkSize = Num(0)],
    [EmptyMapping EXCEPT !.splitter = Fn(1)],
    [EmptyMapping EXCEPT !.model = Str(2)] }

RECURSIVE SeqsUpTo(_, _)
SeqsUpTo(S, n) ==
  IF n = 0 THEN {<<>>}
  ELSE LET shorter == SeqsUpTo(S, n - 1)
       IN shorter \cup {Append(s, x) : s \in shorter, x \in S}

\* The texts arguments of generate: every list of up to MaxTexts sample texts
\* in the generate specification, the lists of at most one in the lifecycle
\* specification.
TextInputs == SeqsUpTo(Texts, MaxTexts)
ShortTextInputs == SeqsUpTo(Texts, 1)

\* The configurations the adapter of the generate specification is built
\* with: every chunkSize and splitter that full validation accepts.
GenerateConfigs ==
  { MkConfig(Str(1), Str(1), Str(1), cs, Num(0), Undefined, sp) :
      cs \in {Undefined, Null} \cup {Num(n) : n \in 1..MaxChunkSize},
      sp \in {Undefined, Fn(1), Fn(2)} }

\* ------------------------------------------------------------------ actions
\* new OpenAIEmbeddingFunction(arg), called by the client.
New(arg) ==
  /\ Len(adapters) < MaxAdapters
  /\ LET c == Constructor(arg)
     IN /\ adapters' = IF c.out.threw THEN adapters
                       ELSE Append(adapters, [config |-> c.config])
        /\ built' = IF c.out.threw THEN built ELSE Append(built, arg)
        /\ last' = [NoCall EXCEPT !.op = "new", !.arg = arg, !.out = c.out,
                      !.made = IF c.out.threw THEN 0 ELSE Len(adapters) + 1]
  /\ UNCHANGED <<vvars, gvars>>

\* self.buildFromConfig(arg): return new OpenAIEmbeddingFunction(arg).
BuildFromConfig(self, arg) ==
  /\ Len(adapters) < MaxAdapters
  /\ LET b == buildFromConfig(adapters, self, arg)
     IN /\ adapters' = b.adapters
        /\ built' = IF b.made > Len(built) THEN Append(built, arg) ELSE built
        /\ last' = [NoCall EXCEPT !.op = "buildFromConfig", !.self = self,
                      !.arg = arg, !.before = adapters[self].config,
                      !.out = b.out, !.made = b.made]
  /\ UNCHANGED <<vvars, gvars>>

\* self.getConfig(): reading this.config.aiServiceUrl of an instance without
\* a config throws a TypeError.
GetConfig(self) ==
  /\ last' = IF adapters[self].config = Undefined
             THEN [NoCall EXCEPT !.op = "getConfig", !.self = self,
                                 !.out = Threw(TypeError)]
             ELSE [NoCall EXCEPT !.op = "getConfig", !.self = self,
                                 !.ret = getConfig(adapters[self].config)]
  /\ UNCHANGED <<vvars, avars, gvars>>

\* self.validateConfig(arg)
ValidateConfig(self, arg) ==
  /\ last' = [NoCall EXCEPT !.op = "validateConfig", !.self = self,
                            !.arg = arg, !.out = validateConfig(arg)]
  /\ UNCHANGED <<vvars, avars, gvars>>

\* self.validateConfigUpdate(arg)
ValidateConfigUpdate(self, arg) ==
  /\ last' = [NoCall EXCEPT !.op = "validateConfigUpdate", !.self = self,
                            !.arg = arg, !.out = validateConfigUpdate(arg)]
  /\ UNCHANGED <<vvars, avars, gvars>>

\* The synchronous part of generate(texts): the split, then the first loop
\* head.  One generate call is followed at a time.
Generate(self, texts) ==
  /\ gen.pc \in {"idle", "done", "failed"}
  /\ LET config == adapters[self].config
         sp == SplitAll(config, texts)
         g0 == [IdleGen EXCEPT !.self = self, !.texts = texts,
                               !.chunks = sp.chunks]
     IN IF sp.threw
        THEN /\ gen' = [g0 EXCEPT !.pc = "failed", !.settled = "rejected",
                                  !.reason = TypeErrorReason]
             /\ inflight' = <<>>
             /\ requests' = <<>>
        ELSE LET h == LoopHead(g0, config)
             IN /\ gen' = h.g
                /\ inflight' = h.send
                /\ requests' = h.send
  /\ responses' = <<>>
  /\ UNCHANGED <<vvars, avars, last>>

\* generateForQueries(texts): return this.generate(texts).
GenerateForQueries(self, texts) == Generate(self, texts)

\* The service answers a request in flight; the call resumes after
\* `await fetch` and tests response.ok.
FetchSettles(k, response) ==
  /\ gen.pc = "fetch"
  /\ k \in 1..Len(inflight)
  /\ gen' = OnResponse(gen, response)
  /\ inflight' = [j \in 1..(Len(inflight) - 1) |->
                    IF j < k THEN inflight[j] ELSE inflight[j + 1]]
  /\ responses' = Append(responses, response)
  /\ UNCHANGED <<vvars, avars, last, requests>>

\* `await response.json()` resumes: the embeddings are appended, i advances,
\* and the loop head runs again.
JsonSettles ==
  /\ gen.pc = "json"
  /\ LET config == adapters[gen.self].config
         h == LoopHead(OnJson(gen, responses[Len(responses)].data, config), config)
     IN /\ Len(requests) + Len(h.send) <= MaxRequests
        /\ gen' = h.g
        /\ inflight' = inflight \o h.send
        /\ requests' = requests \o h.send
  /\ UNCHANGED <<vvars, avars, last, responses>>

\* ------------------------------------------- specification: pure validation
InitValidate ==
  /\ raw \in RawConfigs
  /\ mode = "none"
  /\ res = Returned
  /\ adapters = <<>>
  /\ built = <<>>
  /\ last = NoCall
  /\ gen = IdleGen
  /\ inflight = <<>>
  /\ requests = <<>>
  /\ responses = <<>>

CallValidateConfig ==
  /\ mode = "none"
  /\ mode' = "full"
  /\ res' = validateConfig(raw)
  /\ UNCHANGED <<raw, avars, last, gvars>>

CallValidateConfigUpdate ==
  /\ mode = "none"
  /\ mode' = "update"
  /\ res' = validateConfigUpdate(raw)
  /\ UNCHANGED <<raw, avars, last, gvars>>

NextValidate == CallValidateConfig \/ CallValidateConfigUpdate

SpecValidate == InitValidate /\ [][NextValidate]_vars

\* ------------------------------------------ specification: adapter lifecycle
Init ==
  /\ raw = EmptyMapping
  /\ mode = "none"
  /\ res = Returned
  /\ adapters = <<>>
  /\ built = <<>>
  /\ last = NoCall
  /\ gen = IdleGen
  /\ inflight = <<>>
  /\ requests = <<>>
  /\ responses = <<>>

Instances == 1..Len(adapters)

Next ==
  \/ \E arg \in ConfigInputs : New(arg)
  \/ \E self \in Instances, arg \in ConfigInputs : BuildFromConfig(self, arg)
  \/ \E self \in Instances : GetConfig(self)
  \/ \E self \in Instances, arg \in MappingInputs : ValidateConfig(self, arg)
  \/ \E self \in Instances, arg \in UpdateInputs : ValidateConfigUpdate(self, arg)
  \/ \E self \in Instances, texts \in ShortTextInputs : Generate(self, texts)
  \/ \E self \in Instances, texts \in ShortTextInputs :
       GenerateForQueries(self, texts)
  \/ \E k \in 1..Len(inflight) :
       \E response \in FailureResponses \cup SuccessResponses(inflight[k].input) :
         FetchSettles(k, response)
  \/ JsonSettles

Spec == Init /\ [][Next]_vars

\* ----------------------------------------------- specification: generate
\* One adapter, constructed with a configuration that full validation
\* accepts, on which generate is called again and again.
InitGenerate ==
  /\ raw = EmptyMapping
  /\ mode = "none"
  /\ res = Returned
  /\ \E config \in {c \in GenerateConfigs : ~Constructor(c).out.threw} :
       /\ adapters = <<[config |-> Constructor(config).config]>>
       /\ built = <<config>>
       /\ last = [NoCall EXCEPT !.op = "new", !.arg = config, !.made = 1]
  /\ gen = IdleGen
  /\ inflight = <<>>
  /\ requests = <<>>
  /\ responses = <<>>

NextGenerate ==
  \/ \E texts \in TextInputs : Generate(1, texts)
  \/ \E texts \in TextInputs : GenerateForQueries(1, texts)
  \/ \E k \in 1..Len(inflight) :
       \E response \in FailureResponses \cup SuccessResponses(inflight[k].input) :
         FetchSettles(k, response)
  \/ JsonSettles

SpecGenerate == InitGenerate /\ [][NextGenerate]_vars

\* ===================================================================== claims
\* The claims' side of the validation rules, stated on the value tags.
Absent(x) == x = Undefined \/ x = Null

Min(S) == CHOOSE i \in S : \A j \in S : i <= j

\* The field order the claims name for validation.
SpecOrder ==
  <<"aiServiceUrl", "model", "encodingFormat", "chunkSize", "chunkOverlap",
    "chunkStrategy", "splitter">>

\* The key order of the update checks.
UpdateOrder ==
  <<"model", "encodingFormat", "chunkStrategy", "chunkOverlap", "chunkSize",
    "aiServiceUrl", "splitter">>

ImmutableFields ==
  {"model", "encodingFormat", "chunkStrategy", "aiServiceUrl", "chunkOverlap"}

FieldOk(f, x) ==
  CASE f \in {"aiServiceUrl", "model", "encodingFormat", "chunkStrategy"} ->
         x.t = "string"
    [] f = "chunkSize" -> x.t = "number" /\ x.v > 0
    [] f = "chunkOverlap" -> x.t = "number" /\ x.v >= 0
    [] f = "splitter" -> x.t = "function"

\* The failure of field f under full validation, NoError when it passes.
FullFailure(f, cfg) ==
  IF Absent(cfg[f])
  THEN (IF f \in {"aiServiceUrl", "model"} THEN RequiredError(f) ELSE NoError)
  ELSE (IF FieldOk(f, cfg[f]) THEN NoError ELSE InvalidError(f))

\* The failure of field f under update validation, NoError when it passes.
UpdateFailure(f, cfg) ==
  IF Absent(cfg[f]) THEN NoError
  ELSE IF f \in ImmutableFields THEN UpdateError(f)
  ELSE IF FieldOk(f, cfg[f]) THEN NoError
  ELSE InvalidError(f)

\* The outcome for the fields' failures listed in checking order: the first
\* failure is thrown.
FirstFailure(failures) ==
  LET bad == {i \in 1..Len(failures) : failures[i] # NoError}
  IN IF bad = {} THEN Returned ELSE Threw(failures[Min(bad)])

FullOutcome(order, cfg) ==
  FirstFailure([i \in 1..Len(order) |-> FullFailure(order[i], cfg)])

UpdateOutcome(order, cfg) ==
  FirstFailure([i \in 1..Len(order) |-> UpdateFailure(order[i], cfg)])

\* C1: validateConfig throws the failure of the first failing field in the
\* order aiServiceUrl, model, encodingFormat, chunkSize, chunkOverlap,
\* chunkStrategy, splitter ('required' for an absent required field, 'invalid'
\* for a present field failing its predicate), and returns exactly when no
\* field fails.
C1_FullValidationFirstFailure ==
  mode = "full" => res = FullOutcome(SpecOrder, raw)

\* C1 witness: two fields fail and the earlier one (the absent service URL)
\* is the one reported.
C1_Witness ==
  /\ mode = "full"
  /\ raw.aiServiceUrl = Undefined
  /\ raw.model = Num(0)
  /\ raw.chunkSize = Num(0)
  /\ res = Threw(RequiredError("aiServiceUrl"))

AnyImmutableDefined(cfg) == \E f \in ImmutableFields : ~Absent(cfg[f])

\* What update validation does when the five immutable fields are absent.
MutableOnlyOutcome(cfg, r) ==
  IF UpdateFailure("chunkSize", cfg) = NoError
     /\ UpdateFailure("splitter", cfg) = NoError
  THEN r = Returned
  ELSE \E f \in {"chunkSize", "splitter"} :
         UpdateFailure(f, cfg) # NoError /\ r = Threw(InvalidError(f))

\* C2 as stated: whenever one of the five immutable fields is defined,
\* validateConfigUpdate throws 'Updating <field> is not allowed' for such a
\* field, whatever chunkSize and splitter are; when all five are absent the
\* outcome depends on chunkSize and splitter alone.
C2_Original ==
  mode = "update" =>
    IF AnyImmutableDefined(raw)
    THEN \E f \in ImmutableFields :
           ~Absent(raw[f]) /\ res = Threw(UpdateError(f))
    ELSE MutableOnlyOutcome(raw, res)

\* C2 amended: a defined model, encodingFormat, chunkStrategy or chunkOverlap
\* makes validateConfigUpdate throw 'Updating <field> is not allowed' for such
\* a field; when aiServiceUrl is the only defined one of the five, it throws
\* 'chunkSize is invalid' if chunkSize is present and not a number > 0 and
\* 'Updating aiServiceUrl is not allowed' otherwise; when all five are absent
\* the outcome depends on chunkSize and splitter alone.
C2_UpdateRejectsImmutable ==
  mode = "update" =>
    IF \E f \in ImmutableFields \ {"aiServiceUrl"} : ~Absent(raw[f])
    THEN \E f \in ImmutableFields \ {"aiServiceUrl"} :
           ~Absent(raw[f]) /\ res = Threw(UpdateError(f))
    ELSE IF ~Absent(raw.aiServiceUrl)
    THEN res = (IF UpdateFailure("chunkSize", raw) # NoError
                THEN Threw(InvalidError("chunkSize"))
                ELSE Threw(UpdateError("aiServiceUrl")))
    ELSE MutableOnlyOutcome(raw, res)

\* C2 witness: a falsy but defined chunkOverlap (0) is rejected as an update
\* although chunkSize is invalid too.
C2_Witness ==
  /\ mode = "update"
  /\ raw.chunkOverlap = Num(0)
  /\ raw.model = EmptyStr
  /\ raw.chunkSize = Num(-1)
  /\ res.threw
  /\ res.err \in {UpdateError("chunkOverlap"), UpdateError("model")}

\* C3 as stated: validateConfigUpdate reports the earliest violating field in
\* the order of full validation (service URL first).
C3_Original ==
  mode = "update" => res = UpdateOutcome(SpecOrder, raw)

\* C3 amended: validateConfigUpdate reports the earliest violating field in
\* the order model, encodingFormat, chunkStrategy, chunkOverlap, chunkSize,
\* aiServiceUrl, splitter.
C3_UpdateFirstFailure ==
  mode = "update" => res = UpdateOutcome(UpdateOrder, raw)

\* C3 witness: an update supplying both a service URL and a model reports
\* the model.
C3_Witness ==
  /\ mode = "update"
  /\ ~Absent(raw.aiServiceUrl)
  /\ ~Absent(raw.model)
  /\ res = Threw(UpdateError("model"))

\* ------------------------------------------------------- lifecycle claims
PersistedKeys ==
  {"aiServiceUrl", "model", "encodingFormat", "chunkSize", "chunkOverlap",
   "chunkStrategy"}

\* An instance is Configured when its this.config is a mapping.
Configured(i) == ~Absent(adapters[i].config)

\* C4: for a config accepted at construction, getConfig returns a mapping
\* with exactly the six persisted keys, each equal to the input config's
\* value, and no splitter key, whenever it is called.
C4_GetConfigReturnsPersisted ==
  (last.op = "getConfig" /\ ~Absent(built[last.self])) =>
    /\ last.out = Returned
    /\ DOMAIN last.ret = PersistedKeys
    /\ \A k \in PersistedKeys : last.ret[k] = built[last.self][k]

\* C4 witness: getConfig answers with the constructor argument's chunkSize
\* while a generate call of the same instance awaits its second batch.
C4_Witness ==
  /\ last.op = "getConfig"
  /\ built[last.self] = FullConfig
  /\ last.ret.chunkSize = Num(1)
  /\ gen.pc = "fetch"
  /\ gen.self = last.self
  /\ Len(requests) = 2

\* C5 as stated: for any input, absent ones included, buildFromConfig either
\* throws the full-validation error of the input or returns a new instance,
\* distinct from the caller, that is Configured with exactly that config; the
\* caller's stored configuration is unchanged.
C5_Original ==
  last.op = "buildFromConfig" =>
    /\ adapters[last.self].config = last.before
    /\ IF last.out.threw
       THEN /\ ~Absent(last.arg)
            /\ last.out = FullOutcome(SpecOrder, last.arg)
            /\ last.made = 0
       ELSE /\ last.made \in Instances \ {last.self}
            /\ Configured(last.made)
            /\ adapters[last.made].config = last.arg

\* C5 amended: for an absent (undefined / null) input buildFromConfig returns,
\* without throwing, a new instance distinct from the caller that is
\* Unconfigured; for a mapping it either throws the full-validation error of
\* the input or returns a new instance, distinct from the caller, Configured
\* with exactly that config; in every outcome the caller's stored
\* configuration is unchanged.
C5_BuildFromConfig ==
  last.op = "buildFromConfig" =>
    /\ adapters[last.self].config = last.before
    /\ IF Absent(last.arg)
       THEN /\ ~last.out.threw
            /\ last.made \in Instances \ {last.self}
            /\ ~Configured(last.made)
       ELSE IF last.out.threw
       THEN /\ last.out = FullOutcome(SpecOrder, last.arg)
            /\ last.made = 0
       ELSE /\ last.made \in Instances \ {last.self}
            /\ Configured(last.made)
            /\ adapters[last.made].config = last.arg

\* C5 witness: a Configured caller builds a second instance from another
\* accepted config and keeps its own.
C5_Witness ==
  /\ last.op = "buildFromConfig"
  /\ last.arg = MinimalConfig
  /\ last.made = 2
  /\ adapters[2].config = MinimalConfig
  /\ adapters[1].config = FullConfig

\* C9: every step leaves each existing instance's configuration as it was
\* (so nothing is changed or cleared, and a Configured instance stays
\* Configured), adds at most one instance, and an added instance holds
\* either no configuration or the constructor argument, which passes full
\* validation; a construction that throws adds none.
C9_ConfigFixedAtConstruction ==
  [][ /\ \A i \in 1..Len(adapters) :
          i <= Len(adapters') /\ adapters'[i] = adapters[i]
      /\ Len(adapters') <= Len(adapters) + 1
      /\ Len(adapters') = Len(adapters) + 1 =>
           /\ last'.op \in {"new", "buildFromConfig"}
           /\ ~last'.out.threw
           /\ LET c == adapters'[Len(adapters')].config
              IN IF Absent(last'.arg) THEN c = Undefined
                 ELSE /\ c = last'.arg
                      /\ FullOutcome(SpecOrder, c) = Returned
      /\ (last'.op \in {"new", "buildFromConfig"} /\ last'.out.threw
          /\ last' # last) => adapters' = adapters ]_vars

\* C9 witness: validateConfigUpdate accepted a new chunkSize and the
\* instance still holds the chunkSize it was constructed with.
C9_Witness ==
  /\ last.op = "validateConfigUpdate"
  /\ ~last.out.threw
  /\ last.arg.chunkSize = Num(2)
  /\ Configured(last.self)
  /\ adapters[last.self].config.chunkSize = Num(1)

\* --------------------------------------------------------- generate claims
RECURSIVE ConcatData(_, _)
ConcatData(rs, n) ==
  IF n = 0 THEN <<>> ELSE ConcatData(rs, n - 1) \o rs[n].data

RECURSIVE ConcatInput(_, _)
ConcatInput(rq, n) ==
  IF n = 0 THEN <<>> ELSE ConcatInput(rq, n - 1) \o rq[n].input

CeilDiv(n, c) == (n + c - 1) \div c

MinOf(a, b) == IF a < b THEN a ELSE b

\* The chunks of the call: the splitter outputs in input order.
ExpectedChunks(config, texts) ==
  Flatten([k \in 1..Len(texts) |-> ApplySplitter(config.splitter, texts[k])])

\* C6: with a callable splitter and a positive integer chunkSize c, the k-th
\* request carries chunks k*c .. min((k+1)*c, n)-1 in order; a call whose
\* responses were all successful has issued exactly ceil(n/c) requests and
\* returns the concatenation of the responses' embeddings in request order,
\* which is the embedding of chunk i at position i when every response held
\* one embedding per input.
C6_BatchesPartitionChunks ==
  LET config == adapters[gen.self].config
      c == config.chunkSize.v
      n == Len(gen.chunks)
  IN (gen.pc # "idle" /\ config.splitter.t = "function"
      /\ config.chunkSize.t = "number" /\ c > 0) =>
       /\ gen.chunks = ExpectedChunks(config, gen.texts)
       /\ \A k \in 1..Len(requests) :
            requests[k].input = SubSeq(gen.chunks, (k - 1) * c + 1, MinOf(k * c, n))
       /\ gen.pc = "done" =>
            /\ Len(requests) = CeilDiv(n, c)
            /\ gen.value = ConcatData(responses, Len(responses))
            /\ (\A k \in 1..Len(responses) :
                  Len(responses[k].data) = Len(requests[k].input)) =>
                 gen.value = [j \in 1..n |-> Embedding(gen.chunks[j])]

\* C6 witness: three chunks with chunkSize 2 went out as two requests and
\* came back as the three embeddings in chunk order.
C6_Witness ==
  /\ gen.pc = "done"
  /\ adapters[gen.self].config.chunkSize = Num(2)
  /\ gen.chunks = <<1, 3, 4>>
  /\ Len(requests) = 2
  /\ gen.value = <<101, 103, 104>>

\* C7: once a response has a non-success status the call has failed with an
\* error carrying that status code and status text, the failed request was
\* the last one issued (nothing is in flight, nothing was retried), and the
\* promise carries no vectors; a call that resolves received only successful
\* responses, one per request.
C7_FailureAbortsCall ==
  /\ \A k \in 1..Len(responses) :
       ~responses[k].ok =>
         /\ k = Len(responses)
         /\ Len(requests) = k
         /\ inflight = <<>>
         /\ gen.pc = "failed"
         /\ gen.settled = "rejected"
         /\ gen.reason = [kind |-> "Embedding request failed",
                          status |-> responses[k].status,
                          statusText |-> responses[k].statusText]
         /\ gen.value = <<>>
  /\ gen.settled = "resolved" =>
       /\ Len(responses) = Len(requests)
       /\ \A k \in 1..Len(responses) : responses[k].ok

\* C7 witness: the second batch failed after the first one's vectors had
\* been fetched, and the caller got none.
C7_Witness ==
  /\ gen.pc = "failed"
  /\ Len(responses) = 2
  /\ responses[1].ok
  /\ gen.embeddings # <<>>
  /\ gen.reason.status = 429
  /\ gen.value = <<>>

\* C8: at most one request is in flight; a request is in flight exactly
\* while the call awaits fetch, and it is the last one issued; and the
\* accumulated embeddings are those of the responses to the earlier
\* batches, in batch order.
C8_OneRequestInFlight ==
  /\ Len(inflight) <= 1
  /\ Len(inflight) = (IF gen.pc = "fetch" THEN 1 ELSE 0)
  /\ Len(requests) = Len(responses) + Len(inflight)
  /\ gen.pc = "fetch" => inflight[1] = requests[Len(requests)]
  /\ gen.embeddings =
       ConcatData(responses,
                  IF gen.pc \in {"json", "failed"} /\ responses # <<>>
                  THEN Len(responses) - 1 ELSE Len(responses))

\* C8 witness: the second request is in flight and the first response's
\* embeddings are already appended.
C8_Witness ==
  /\ gen.pc = "fetch"
  /\ Len(requests) = 2
  /\ Len(responses) = 1
  /\ gen.embeddings = responses[1].data
  /\ gen.embeddings # <<>>

\* C10 as stated: for every accepted configuration, an omitted chunkSize
\* included, a generate call that returns has sent every produced chunk in
\* exactly one request.
C10_EveryChunkSent ==
  gen.pc = "done" => ConcatInput(requests, Len(requests)) = gen.chunks

====
